---- MODULE Spec2Model ----
(***************************************************************************)
(* Model of scripts/parse_leaflet_providers.py: the normalisation of the   *)
(* leaflet-providers catalogue (process_data, process_provider,            *)
(* pythonize_data), the rendering of the generated module (generate_file,  *)
(* format_provider, format_bunch) and the script's main pipeline.          *)
(*                                                                         *)
(* Data representation.                                                    *)
(*   - A Python str is the sequence of its lexemes; concatenating the      *)
(*     lexemes gives the text.  "{attribution." is one lexeme, so the      *)
(*     placeholder "{attribution.Esri}" is <<"{attribution.","Esri","}">>, *)
(*     and "{maxZoom}" is <<"{","maxZoom","}">>.  Substring search and     *)
(*     str.replace work on these sequences as Python's work on characters. *)
(*   - A JSON value is a record [t, s, n, d]: t is "str", "num", "dict"    *)
(*     or "null"; s the lexemes of a string, n a number, d the items of a  *)
(*     mapping.                                                            *)
(*   - A Python dict is the sequence of its items <<key, value>> in        *)
(*     insertion order, keys distinct; a key is a single lexeme.           *)
(*   - A call returns [err, val]: err is "none" or the exception raised.   *)
(***************************************************************************)
EXTENDS Integers, Sequences, FiniteSets, TLC

VARIABLES pc, data, description, ATTRIBUTIONS, result, content, files, error,
          arg, ret

vars == <<pc, data, description, ATTRIBUTIONS, result, content, files, error,
          arg, ret>>

(***************************************************************************)
(* JSON values and call results                                            *)
(***************************************************************************)
Str(s) == [t |-> "str", s |-> s, n |-> 0, d |-> <<>>]

Num(n) == [t |-> "num", s |-> <<>>, n |-> n, d |-> <<>>]

Dict(d) == [t |-> "dict", s |-> <<>>, n |-> 0, d |-> d]

Null == [t |-> "null", s |-> <<>>, n |-> 0, d |-> <<>>]

Ok(v) == [err |-> "none", val |-> v]

Raise(e) == [err |-> e, val |-> Null]

(***************************************************************************)
(* Python dict operations on item sequences                                *)
(***************************************************************************)
Keys(d) == {d[i][1] : i \in DOMAIN d}

Has(d, k) == \E i \in DOMAIN d : d[i][1] = k

Get(d, k) == d[CHOOSE i \in DOMAIN d : d[i][1] = k][2]

\* d.pop(k, None) for its effect on d: the items of d without key k.
Pop(d, k) == SelectSeq(d, LAMBDA e : e[1] # k)

\* d[k] = v: an existing key keeps its position, a new key goes last.
Put(d, k, v) ==
    IF Has(d, k)
    THEN [i \in DOMAIN d |-> IF d[i][1] = k THEN <<k, v>> ELSE d[i]]
    ELSE Append(d, <<k, v>>)

RECURSIVE PutAll(_, _, _)
PutAll(d, items, i) ==
    IF i > Len(items) THEN d
    ELSE PutAll(Put(d, items[i][1], items[i][2]), items, i + 1)

\* {**a, **b}
Merge(a, b) == PutAll(a, b, 1)

\* dict(items)
DictOf(items) == PutAll(<<>>, items, 1)

(***************************************************************************)
(* Python str operations on lexeme sequences                               *)
(***************************************************************************)
\* old in s
IsSubstr(old, s) ==
    \E i \in 1..(Len(s) - Len(old) + 1) : SubSeq(s, i, i + Len(old) - 1) = old

RECURSIVE ReplaceFrom(_, _, _, _)
ReplaceFrom(s, old, new, i) ==
    IF i > Len(s) THEN <<>>
    ELSE IF i + Len(old) - 1 <= Len(s) /\ SubSeq(s, i, i + Len(old) - 1) = old
         THEN new \o ReplaceFrom(s, old, new, i + Len(old))
         ELSE <<s[i]>> \o ReplaceFrom(s, old, new, i + 1)

\* s.replace(old, new): every non-overlapping occurrence, leftmost first.
Replace(s, old, new) == ReplaceFrom(s, old, new, 1)

(***************************************************************************)
(* pythonize_data                                                          *)
(***************************************************************************)
rename_keys == << <<"maxZoom", "max_zoom">>, <<"minZoom", "min_zoom">> >>

\* The literal "{attribution." tested at lines 108 and 112.
AttributionPrefix == <<"{attribution.">>

\* "{attribution.<provider>}", a key of ATTRIBUTIONS.
Placeholder(provider) == <<"{attribution.", provider, "}">>

\* The for/else loop over attributions.items(): raised is TRUE when the loop
\* ends without break.
RECURSIVE SubstituteAttributionsSilently(_, _, _)
SubstituteAttributionsSilently(attributions, value, i) ==
    IF i > Len(attributions) THEN [raised |-> FALSE, value |-> value]
    ELSE IF IsSubstr(attributions[i][1], value)
         THEN LET replaced == Replace(value, attributions[i][1], attributions[i][2])
              IN  IF ~IsSubstr(AttributionPrefix, replaced)
                  THEN [raised |-> FALSE, value |-> replaced]
                  ELSE SubstituteAttributionsSilently(attributions, replaced, i + 1)
         ELSE SubstituteAttributionsSilently(attributions, value, i + 1)

RECURSIVE SubstituteAttributions(_, _, _)
SubstituteAttributions(attributions, value, i) ==
    IF i > Len(attributions) THEN [raised |-> TRUE, value |-> value]
    ELSE IF IsSubstr(attributions[i][1], value)
         THEN LET replaced == Replace(value, attributions[i][1], attributions[i][2])
              IN  IF ~IsSubstr(AttributionPrefix, replaced)
                  THEN [raised |-> FALSE, value |-> replaced]
                  ELSE SubstituteAttributions(attributions, replaced, i + 1)
         ELSE SubstituteAttributions(attributions, value, i + 1)

RECURSIVE RenameWordsInUrl(_, _)
RenameWordsInUrl(value, i) ==
    IF i > Len(rename_keys) THEN value
    ELSE RenameWordsInUrl(Replace(value, <<rename_keys[i][1]>>,
                                         <<rename_keys[i][2]>>), i + 1)

RECURSIVE RenameInUrl(_, _)
RenameInUrl(value, i) ==
    IF i > Len(rename_keys) THEN value
    ELSE RenameInUrl(Replace(value, <<"{", rename_keys[i][1], "}">>,
                                    <<"{", rename_keys[i][2], "}">>), i + 1)

PythonizeItemKeepingKeys(attributions, key, value) ==
    IF key = "attribution" /\ IsSubstr(AttributionPrefix, value.s)
    THEN LET sub == SubstituteAttributions(attributions, value.s, 1)
         IN  IF sub.raised THEN [err |-> "ValueError", item |-> <<key, value>>]
             ELSE [err |-> "none", item |-> <<key, Str(sub.value)>>]
    ELSE IF key = "url" /\ \E i \in DOMAIN rename_keys :
                               IsSubstr(<<rename_keys[i][1]>>, value.s)
    THEN [err |-> "none", item |-> <<key, Str(RenameInUrl(value.s, 1))>>]
    ELSE [err |-> "none", item |-> <<key, value>>]

\* One turn of the loop over data.items(): the item appended to new_data, or
\* the ValueError.
PythonizeItem(attributions, key, value) ==
    IF key = "attribution" /\ IsSubstr(AttributionPrefix, value.s)
    THEN LET sub == SubstituteAttributions(attributions, value.s, 1)
         IN  IF sub.raised THEN [err |-> "ValueError", item |-> <<key, value>>]
             ELSE [err |-> "none", item |-> <<key, Str(sub.value)>>]
    ELSE IF Has(rename_keys, key)
    THEN [err |-> "none", item |-> <<Get(rename_keys, key), value>>]
    ELSE IF key = "url" /\ \E i \in DOMAIN rename_keys :
                               IsSubstr(<<rename_keys[i][1]>>, value.s)
    THEN [err |-> "none", item |-> <<key, Str(RenameInUrl(value.s, 1))>>]
    ELSE [err |-> "none", item |-> <<key, value>>]

PythonizeData(attributions, d) ==
    LET new_data == [i \in DOMAIN d |-> PythonizeItem(attributions, d[i][1], d[i][2])]
    IN  IF \E i \in DOMAIN d : new_data[i].err # "none"
        THEN Raise("ValueError")
        ELSE Ok(Dict(DictOf([i \in DOMAIN d |-> new_data[i].item])))

(***************************************************************************)
(* process_provider and process_data                                       *)
(***************************************************************************)
VariantKeysNamedFirst(provider_keys, name, variant, var) ==
    LET variant_keys ==
            IF var.t = "str" THEN << <<"variant", var>> >>
            ELSE LET variant_options ==
                         IF Has(var.d, "options") THEN Get(var.d, "options").d
                         ELSE <<>>
                 IN  Merge(Pop(var.d, "options"), variant_options)
    IN  Merge(Put(provider_keys, "name", Str(<<name, ".", variant>>)), variant_keys)

VariantKeysUnderProvider(provider_keys, name, variant, var) ==
    LET variant_keys ==
            IF var.t = "str" THEN << <<"variant", var>> >>
            ELSE LET variant_options ==
                         IF Has(var.d, "options") THEN Get(var.d, "options").d
                         ELSE <<>>
                 IN  Merge(Pop(var.d, "options"), variant_options)
    IN  Put(Merge(variant_keys, provider_keys), "name", Str(<<name, ".", variant>>))

\* The body of the loop over variants, lines 77-87: the mapping handed to
\* pythonize_data for one variant.
VariantKeys(provider_keys, name, variant, var) ==
    LET variant_keys ==
            IF var.t = "str" THEN << <<"variant", var>> >>
            ELSE LET variant_options ==
                         IF Has(var.d, "options") THEN Get(var.d, "options").d
                         ELSE <<>>
                 IN  Merge(Pop(var.d, "options"), variant_options)
    IN  Put(Merge(provider_keys, variant_keys), "name", Str(<<name, ".", variant>>))

RECURSIVE ProcessVariants(_, _, _, _, _, _)
ProcessVariants(attributions, provider_keys, name, variants, i, acc) ==
    IF i > Len(variants) THEN Ok(Dict(acc))
    ELSE LET variant == variants[i][1]
             py == PythonizeData(attributions,
                       VariantKeys(provider_keys, name, variant, variants[i][2]))
         IN  IF py.err # "none" THEN Raise(py.err)
             ELSE ProcessVariants(attributions, provider_keys, name, variants,
                                  i + 1, Put(acc, variant, py.val))

ProviderKeysKeepingOptions(entry) ==
    Merge(Pop(entry, "variants"), Get(entry, "options").d)

\* Lines 64-67 once "options" is known to be there: provider_keys.
ProviderKeys(entry) ==
    Merge(Pop(Pop(entry, "variants"), "options"), Get(entry, "options").d)

\* process_provider(data, name), with the global ATTRIBUTIONS it reads passed in.
ProcessProvider(attributions, d, name) ==
    IF ~Has(d, name) THEN Raise("KeyError")
    ELSE LET entry == Get(d, name).d
             variants == IF Has(entry, "variants") THEN Get(entry, "variants")
                         ELSE Null
         IN  IF ~Has(entry, "options") THEN Raise("KeyError")
             ELSE IF variants.t = "null"
                  THEN PythonizeData(attributions,
                           Put(ProviderKeys(entry), "name", Str(<<name>>)))
                  ELSE ProcessVariants(attributions, ProviderKeys(entry), name,
                                       variants.d, 1, <<>>)

\* The three providers whose attribution process_data reads, in the order of
\* the dict literal at lines 51-55.
AttributionProviders == <<"OpenStreetMap", "Esri", "OpenMapSurfer">>

\* data[p]["options"]["attribution"] does not raise KeyError.
HasAttribution(d, p) ==
    /\ Has(d, p)
    /\ Has(Get(d, p).d, "options")
    /\ Has(Get(Get(d, p).d, "options").d, "attribution")

\* The dict assigned to ATTRIBUTIONS at lines 51-55.
AttributionTable(d) ==
    [i \in DOMAIN AttributionProviders |->
        <<Placeholder(AttributionProviders[i]),
          Get(Get(Get(d, AttributionProviders[i]).d, "options").d, "attribution").s>>]

RECURSIVE ProcessProviders(_, _, _, _)
ProcessProviders(attributions, d, i, acc) ==
    IF i > Len(d) THEN Ok(Dict(acc))
    ELSE LET r == ProcessProvider(attributions, d, d[i][1])
         IN  IF r.err # "none" THEN Raise(r.err)
             ELSE ProcessProviders(attributions, d, i + 1, Put(acc, d[i][1], r.val))

\* process_data(data): [err, val], and in table the value the global
\* ATTRIBUTIONS has when the call ends (old when the assignment was not reached).
ProcessData(old, d) ==
    IF \E i \in DOMAIN AttributionProviders : ~HasAttribution(d, AttributionProviders[i])
    THEN [err |-> "KeyError", val |-> Null, table |-> old]
    ELSE LET r == ProcessProviders(AttributionTable(d), d, 1, <<>>)
         IN  [err |-> r.err, val |-> r.val, table |-> AttributionTable(d)]

(***************************************************************************)
(* generate_file, format_provider, format_bunch                            *)
(* A text is the sequence of its lines; a line is its indentation and what *)
(* it says: "open" is "<name> = <cls>(", "field" is "<name> = <literal>",  *)
(* "close" is ")", "blank" is a line of white space; comma tells whether   *)
(* the line ends with ",".                                                 *)
(***************************************************************************)
\* "{value!r}": the Python literal of a value.
Repr(value) ==
    [form |-> IF value.t = "str" THEN "quoted"
              ELSE IF value.t = "num" THEN "numeral"
              ELSE IF value.t = "dict" THEN "dict_display" ELSE "None",
     of |-> value]

NoLiteral == [form |-> "", of |-> Null]

Line(ind, kind, name, cls, literal, comma) ==
    [ind |-> ind, kind |-> kind, name |-> name, cls |-> cls,
     literal |-> literal, comma |-> comma]

\* sep.join(blocks) for sep = ",\n": the last line of every block but the last
\* gets the comma.
RECURSIVE JoinBlocks(_, _)
JoinBlocks(blocks, i) ==
    IF i > Len(blocks) THEN <<>>
    ELSE IF i = Len(blocks) THEN blocks[i]
    ELSE LET b == blocks[i]
         IN  [j \in DOMAIN b |-> IF j = Len(b) THEN [b[j] EXCEPT !.comma = TRUE]
                                 ELSE b[j]]
             \o JoinBlocks(blocks, i + 1)

\* textwrap.indent(text, "    "): lines of white space only are not indented.
Indent(lines) ==
    [j \in DOMAIN lines |-> IF lines[j].kind = "blank" THEN lines[j]
                            ELSE [lines[j] EXCEPT !.ind = @ + 4]]

\* format_provider(data, name) for a mapping data given by its items.
FormatProvider(d, name) ==
    <<Line(0, "open", name, "TileProvider", NoLiteral, FALSE)>>
    \o (IF Len(d) = 0 THEN <<Line(4, "blank", "", "", NoLiteral, FALSE)>>
        ELSE [i \in DOMAIN d |->
                 Line(4, "field", d[i][1], "", Repr(d[i][2]), i < Len(d))])
    \o <<Line(0, "close", "", "", NoLiteral, FALSE)>>

\* format_bunch(data, name) for the text data.
FormatBunch(lines, name) ==
    <<Line(0, "open", name, "Bunch", NoLiteral, FALSE)>>
    \o (IF Len(lines) = 0 THEN <<Line(0, "blank", "", "", NoLiteral, FALSE)>>
        ELSE Indent(lines))
    \o <<Line(0, "close", "", "", NoLiteral, FALSE)>>

\* One turn of the loop at lines 204-218: the block res of one provider, or the
\* AttributeError of format_provider's data.items() on a value that is no mapping.
FormatEntry(provider, provider_name) ==
    IF Has(provider, "url") THEN [err |-> "none", res |-> FormatProvider(provider, provider_name)]
    ELSE IF \E i \in DOMAIN provider : provider[i][2].t # "dict"
    THEN [err |-> "AttributeError", res |-> <<>>]
    ELSE [err |-> "none",
          res |-> FormatBunch(
                      JoinBlocks([i \in DOMAIN provider |->
                                     FormatProvider(provider[i][2].d, provider[i][1])], 1),
                      provider_name)]

\* generate_file(data, description) on the day timestamp.
GenerateFile(d, descr, timestamp) ==
    LET entries == [i \in DOMAIN d |-> FormatEntry(d[i][2].d, d[i][1])]
    IN  IF \E i \in DOMAIN d : entries[i].err # "none"
        THEN [err |-> "AttributeError", val |-> <<>>]
        ELSE [err |-> "none",
              val |-> << [timestamp |-> timestamp, description |-> descr,
                          providers |-> Indent(JoinBlocks(
                              [i \in DOMAIN d |-> entries[i].res], 1))] >>]

(***************************************************************************)
(* Inputs of the main pipeline: the catalogues get_json_data may return.   *)
(* Field values are a str or a number, "attribution" and "url" are str,    *)
(* "options" is a mapping, "variants" a mapping of variant names to a str  *)
(* or a mapping.                                                           *)
(***************************************************************************)
MaxVariants == 1

VariantNames == {"Roads", "Dark"}

Url0 == Str(<<"http://tile/", "{", "z", "}", "/", "{", "x", "}", "/", "{", "y", "}", ".png">>)

Item(k, v) == << <<k, v>> >>

\* The entry of the spec's round-trip example.
OSMExample ==
    Dict(Item("url", Url0)
         \o Item("options", Dict(Item("maxZoom", Num(19))
                                 \o Item("attribution", Str(<<"(c) OSM">>)))))

OSMEntries ==
    { OSMExample,
      Dict(Item("url", Url0)),
      Dict(Item("url", Url0) \o Item("options", Dict(Item("maxZoom", Num(19))))) }

EsriEntries ==
    { Dict(Item("url", Url0)
           \o Item("options", Dict(Item("attribution", Str(<<"Tiles (c) Esri">>))))),
      Dict(Item("url", Url0)
           \o Item("options", Dict(Item("attribution",
                  Str(<<"Tiles (c) Esri, ">> \o Placeholder("OpenStreetMap")))))),
      Dict(Item("url", Url0)) }

OpenMapSurferEntries ==
    { Dict(Item("url", Url0)
           \o Item("options", Dict(Item("attribution", Str(<<"Imagery GIScience | ">>))))),
      Dict(Item("url", Url0)
           \o Item("options", Dict(Item("attribution",
                  Str(<<"Imagery GIScience | ">> \o Placeholder("OpenStreetMap")))))),
      Dict(Item("url", Url0) \o Item("options", Dict(<<>>))) }

\* attribution values of the fourth provider and of its variants
AttrStrings ==
    { <<"Map tiles">>,
      Placeholder("OpenStreetMap"),
      Placeholder("Esri"),
      Placeholder("OpenMapSurfer") \o Placeholder("OpenStreetMap"),
      Placeholder("Unknown"),
      <<"Data ">> \o Placeholder("OpenStreetMap") \o <<", ">> \o Placeholder("Unknown") }

\* the "options" item of an entry: none, without attribution, or with one
OptionItems ==
    { <<>>, Item("options", Dict(Item("maxZoom", Num(18)))) }
    \cup { Item("options", Dict(Item("maxZoom", Num(18)) \o Item("attribution", Str(a)))) :
             a \in AttrStrings }

VariantDefs ==
    { Str(<<"toner">>),
      Dict(<<>>),
      Dict(Item("url", Str(<<"http://v/", "{", "maxZoom", "}">>))),
      Dict(Item("options", Dict(Item("attribution", Str(Placeholder("Unknown")))))),
      Dict(Item("options", Dict(Item("attribution", Str(<<"Variant tiles">>))
                                \o Item("minZoom", Num(2))))) }

\* all sequences over S of length at most n
RECURSIVE SeqsUpTo(_, _)
SeqsUpTo(S, n) ==
    IF n = 0 THEN { <<>> }
    ELSE LET shorter == SeqsUpTo(S, n - 1)
         IN  shorter \cup { Append(q, x) : q \in shorter, x \in S }

Distinct(q) == \A i, j \in DOMAIN q : i # j => q[i] # q[j]

\* the mappings of at most n variants
VariantMaps(n) ==
    UNION { { [i \in DOMAIN names |-> <<names[i], defs[i]>>] :
                defs \in [DOMAIN names -> VariantDefs] } :
            names \in { q \in SeqsUpTo(VariantNames, n) : Distinct(q) } }

\* the "variants" item of an entry: none, or a mapping of at most n variants
VariantItems(n) == { <<>> } \cup { Item("variants", Dict(m)) : m \in VariantMaps(n) }

\* the entries of the fourth provider with at most n variants
StamenEntries(n) ==
    { Dict(u \o o \o v) : u \in { <<>>, Item("url", Url0) }, o \in OptionItems,
                          v \in VariantItems(n) }

\* A provider's item of the catalogue, or nothing when the catalogue lacks it.
Provided(name, entries) == { <<>> } \cup { Item(name, e) : e \in entries }

\* The entries from which process_data can build its table.
Complete(entries) == { e \in entries : HasAttribution(Item("P", e), "P") }

\* Catalogues holding the three attribution providers complete, with every
\* fourth provider before or after them; and catalogues where one of the three
\* is missing or incomplete, with or without a plain fourth provider.  n bounds
\* the variants of a provider.
Catalogs(n) ==
    { Dict(IF first THEN s \o a \o b \o c ELSE a \o b \o c \o s) :
        a \in { Item("OpenStreetMap", e) : e \in Complete(OSMEntries) },
        b \in { Item("Esri", e) : e \in Complete(EsriEntries) },
        c \in { Item("OpenMapSurfer", e) : e \in Complete(OpenMapSurferEntries) },
        s \in Provided("Stamen", StamenEntries(n)),
        first \in BOOLEAN }
    \cup
    { Dict(a \o b \o c \o s) :
        a \in Provided("OpenStreetMap", OSMEntries),
        b \in Provided("Esri", EsriEntries),
        c \in Provided("OpenMapSurfer", OpenMapSurferEntries),
        s \in Provided("Stamen", { Dict(Item("url", Url0)
                 \o Item("options", Dict(Item("attribution", Str(<<"Map tiles">>))))) }) }

Descriptions == { <<"commit ", "0a1b2c", " (", "Update providers", ")">> }

Dates == { "2019-10-01", "2019-10-02" }

FileNames == {"leaflet-providers-raw.json", "leaflet-providers-parsed.json", "_providers.py"}

(***************************************************************************)
(* The main pipeline, lines 229-252                                        *)
(***************************************************************************)
NoCall == [err |-> "none", val |-> Null]

\* A file left by an earlier run, or no file.
OldFile(there) == [st |-> IF there THEN "stale" ELSE "absent", body |-> <<>>]

\* open(name, "w") and the dump into it
Written(body) == [st |-> "written", body |-> <<body>>]

Init ==
    /\ pc = "start"
    /\ data = Null
    /\ description = <<>>
    /\ ATTRIBUTIONS = <<>>
    /\ result = Null
    /\ content = <<>>
    /\ \E there \in BOOLEAN : files = [f \in FileNames |-> OldFile(there)]
    /\ error = "none"
    /\ arg = Null
    /\ ret = NoCall

\* line 230, get_json_data returns
Fetch ==
    /\ pc = "start"
    /\ \E cat \in Catalogs(MaxVariants), descr \in Descriptions :
          /\ data' = cat
          /\ description' = descr
    /\ pc' = "fetched"
    /\ UNCHANGED <<ATTRIBUTIONS, result, content, files, error, arg, ret>>

\* line 230, get_json_data raises (clone, browser or JSON failure)
FetchFail ==
    /\ pc = "start"
    /\ pc' = "failed"
    /\ error' = "FetchError"
    /\ UNCHANGED <<data, description, ATTRIBUTIONS, result, content, files, arg, ret>>

\* lines 231-232
WriteRaw ==
    /\ pc = "fetched"
    /\ files' = [files EXCEPT !["leaflet-providers-raw.json"] = Written(data)]
    /\ pc' = "raw_written"
    /\ UNCHANGED <<data, description, ATTRIBUTIONS, result, content, error, arg, ret>>

\* line 238
Normalize ==
    /\ pc = "raw_written"
    /\ LET r == ProcessData(ATTRIBUTIONS, data.d)
       IN  /\ ATTRIBUTIONS' = r.table
           /\ IF r.err = "none"
              THEN /\ result' = r.val
                   /\ pc' = "normalized"
                   /\ UNCHANGED error
              ELSE /\ pc' = "failed"
                   /\ error' = r.err
                   /\ UNCHANGED result
    /\ UNCHANGED <<data, description, content, files, arg, ret>>

\* lines 239-248
WriteParsed ==
    /\ pc = "normalized"
    /\ files' = [files EXCEPT !["leaflet-providers-parsed.json"] = Written(result)]
    /\ pc' = "parsed_written"
    /\ UNCHANGED <<data, description, ATTRIBUTIONS, result, content, error, arg, ret>>

RenderOpeningFirst ==
    /\ pc = "parsed_written"
    /\ \E today \in Dates :
          LET r == GenerateFile(result.d, description, today)
          IN  IF r.err = "none"
              THEN /\ content' = r.val
                   /\ pc' = "rendered"
                   /\ UNCHANGED <<error, files>>
              ELSE /\ pc' = "failed"
                   /\ error' = r.err
                   /\ files' = [files EXCEPT !["_providers.py"] = Written(<<>>)]
                   /\ UNCHANGED content
    /\ UNCHANGED <<data, description, ATTRIBUTIONS, result, arg, ret>>

\* line 250
Render ==
    /\ pc = "parsed_written"
    /\ \E today \in Dates :
          LET r == GenerateFile(result.d, description, today)
          IN  IF r.err = "none"
              THEN /\ content' = r.val
                   /\ pc' = "rendered"
                   /\ UNCHANGED error
              ELSE /\ pc' = "failed"
                   /\ error' = r.err
                   /\ UNCHANGED content
    /\ UNCHANGED <<data, description, ATTRIBUTIONS, result, files, arg, ret>>

\* lines 251-252
WriteModule ==
    /\ pc = "rendered"
    /\ files' = [files EXCEPT !["_providers.py"] = Written(content[1])]
    /\ pc' = "done"
    /\ UNCHANGED <<data, description, ATTRIBUTIONS, result, content, error, arg, ret>>

Next == Fetch \/ FetchFail \/ WriteRaw \/ Normalize \/ WriteParsed \/ Render \/ WriteModule

Spec == Init /\ [][Next]_vars

(***************************************************************************)
(* pythonize_data called on its own: the records and tables it is given    *)
(***************************************************************************)
MaxUrlLen == 5

MaxParts == 2

UrlLexemes == {"{", "}", "maxZoom", "minZoom", "z"}

AttrParts ==
    { <<"Data ">>, Placeholder("OpenStreetMap"), Placeholder("Esri"),
      Placeholder("OpenMapSurfer"), Placeholder("Unknown") }

\* the concatenations of at most n parts
RECURSIVE AttrValues(_)
AttrValues(n) ==
    IF n = 0 THEN { <<>> }
    ELSE LET shorter == AttrValues(n - 1)
         IN  shorter \cup { q \o x : q \in shorter, x \in AttrParts }

\* The attribution text of provider p: plain, or citing one of the others.
TableTexts(p) ==
    { <<"(c) ", p>> }
    \cup { <<"(c) ", p, ", ">> \o Placeholder(AttributionProviders[i]) :
             i \in { j \in DOMAIN AttributionProviders : AttributionProviders[j] # p } }

\* The tables process_data can build: its three keys in its order.
Tables ==
    { [i \in DOMAIN AttributionProviders |->
          <<Placeholder(AttributionProviders[i]), texts[i]>>] :
      texts \in { <<a, b, c>> : a \in TableTexts("OpenStreetMap"),
                                b \in TableTexts("Esri"),
                                c \in TableTexts("OpenMapSurfer") } }

PlainTable ==
    [i \in DOMAIN AttributionProviders |->
        <<Placeholder(AttributionProviders[i]), <<"(c) ", AttributionProviders[i]>> >>]

\* records whose url has at most n lexemes
UrlRecords(n) ==
    { Dict(Item("url", Str(u)) \o z \o Item("name", Str(<<"Stamen">>))) :
        u \in SeqsUpTo(UrlLexemes, n),
        z \in { <<>>, Item("maxZoom", Num(18)) } }

\* records whose attribution has at most n parts
AttributionRecords(n) ==
    { Dict(Item("url", Url0) \o Item("attribution", Str(a)) \o Item("name", Str(<<"Stamen">>))) :
        a \in AttrValues(n) }

InitPythonize ==
    /\ pc = "pythonize_call"
    /\ \/ arg \in UrlRecords(MaxUrlLen) /\ ATTRIBUTIONS = PlainTable
       \/ arg \in AttributionRecords(MaxParts) /\ ATTRIBUTIONS \in Tables
    /\ data = Null
    /\ description = <<>>
    /\ result = Null
    /\ content = <<>>
    /\ files = [f \in FileNames |-> OldFile(FALSE)]
    /\ error = "none"
    /\ ret = NoCall

\* pythonize_data(arg)
CallPythonize ==
    /\ pc = "pythonize_call"
    /\ ret' = PythonizeData(ATTRIBUTIONS, arg.d)
    /\ pc' = "pythonize_ret"
    /\ UNCHANGED <<data, description, ATTRIBUTIONS, result, content, files, error, arg>>

SpecPythonize == InitPythonize /\ [][CallPythonize]_vars

(***************************************************************************)
(* process_provider called on its own: the entries it is given.  A layer   *)
(* of an entry is one of the four mappings merged into a record; every     *)
(* value carries the name of its layer in front (a number: its rank), so   *)
(* that a record shows where each of its values came from.                 *)
(***************************************************************************)
FieldKeys == <<"url", "attribution", "maxZoom", "name", "variant">>

FieldKeySet == { FieldKeys[i] : i \in DOMAIN FieldKeys }

Layers == <<"provider", "provider.options", "variant", "variant.options">>

Rank(layer) == CHOOSE i \in DOMAIN Layers : Layers[i] = layer

FieldValue(layer, k) ==
    IF k = "maxZoom" THEN Num(Rank(layer))
    ELSE IF k = "url" THEN Str(<<layer, "/", "{", "maxZoom", "}">>)
    ELSE IF k = "attribution" THEN Str(<<layer, " ">> \o Placeholder("OpenStreetMap"))
    ELSE Str(<<layer>>)

\* the items of a layer holding the field names K, in the order of FieldKeys
LayerItems(layer, K) ==
    LET present == SelectSeq(FieldKeys, LAMBDA k : k \in K)
    IN  [i \in DOMAIN present |-> <<present[i], FieldValue(layer, present[i])>>]

\* the "options" item of a mapping: none, or the layer named
OptionsOver(layer, pair) ==
    { <<>> } \cup { Item("options", Dict(LayerItems(layer, K))) : K \in SUBSET pair }

\* what a variant name may map to, over the field names pair
VariantValues(pair) ==
    { FieldValue("variant", "variant") }
    \cup { Dict(LayerItems("variant", K) \o o) :
             K \in SUBSET pair, o \in OptionsOver("variant.options", pair) }

\* the variant names of an entry, in one order, at most n of them
SortedNames(n) ==
    { q \in { <<>>, <<"Roads">>, <<"Dark">>, <<"Roads", "Dark">> } : Len(q) <= n }

VariantsOver(pair, n) ==
    { <<>>, Item("variants", Null) }
    \cup UNION { { Item("variants", Dict([i \in DOMAIN names |-> <<names[i], vals[i]>>])) :
                     vals \in [DOMAIN names -> VariantValues(pair)] } :
                 names \in SortedNames(n) }

\* The entries whose layers use the field names pair, with at most n variants.
ProviderEntries(pair, n) ==
    { Dict(LayerItems("provider", K) \o o \o v) :
        K \in SUBSET pair,
        o \in OptionsOver("provider.options", pair),
        v \in VariantsOver(pair, n) }

\* The entries are those that use at most two field names.
FieldPairs == { {k1, k2} : k1 \in FieldKeySet, k2 \in FieldKeySet }

InitProvider ==
    /\ pc = "provider_call"
    /\ \E pair \in FieldPairs :
          \E e \in ProviderEntries(pair, MaxVariants) : data = Dict(Item("Stamen", e))
    /\ arg = Str(<<"Stamen">>)
    /\ ATTRIBUTIONS = PlainTable
    /\ description = <<>>
    /\ result = Null
    /\ content = <<>>
    /\ files = [f \in FileNames |-> OldFile(FALSE)]
    /\ error = "none"
    /\ ret = NoCall

\* process_provider(data, arg)
CallProcessProvider ==
    /\ pc = "provider_call"
    /\ ret' = ProcessProvider(ATTRIBUTIONS, data.d, arg.s[1])
    /\ pc' = "provider_ret"
    /\ UNCHANGED <<data, description, ATTRIBUTIONS, result, content, files, error, arg>>

SpecProvider == InitProvider /\ [][CallProcessProvider]_vars

(***************************************************************************)
(* What the claims speak of                                                *)
(***************************************************************************)
\* process_data has been called in this run.
NormalizeActed == pc \notin {"start", "fetched", "raw_written"} /\ error # "FetchError"

WrittenFiles == { f \in FileNames : files[f].st = "written" }

HasVariants(entry) == Has(entry, "variants") /\ Get(entry, "variants").t # "null"

\* The variant definitions of an entry, as <<name, definition>>; the one pair
\* <<"", Null>> for an entry without variants.
VariantsOf(entry) ==
    IF HasVariants(entry)
    THEN { Get(entry, "variants").d[i] : i \in DOMAIN Get(entry, "variants").d }
    ELSE { <<"", Null>> }

\* The record process_provider's value res holds for the variant named v.
RecordOf(entry, res, v) == IF HasVariants(entry) THEN Get(res.d, v).d ELSE res.d

\* The records of the catalogue res normalised from the raw catalogue raw.
Records(raw, res) ==
    UNION { { RecordOf(raw[i][2].d, Get(res, raw[i][1]), v[1]) : v \in VariantsOf(raw[i][2].d) } :
            i \in DOMAIN raw }

\* One of the four mappings of an entry that make up the record of variant var.
LayerOf(entry, var, layer) ==
    IF layer = "provider" THEN Pop(Pop(entry, "variants"), "options")
    ELSE IF layer = "provider.options"
         THEN (IF Has(entry, "options") THEN Get(entry, "options").d ELSE <<>>)
    ELSE IF layer = "variant"
         THEN (IF var.t = "str" THEN Item("variant", var)
               ELSE IF var.t = "dict" THEN Pop(var.d, "options") ELSE <<>>)
    ELSE (IF var.t = "dict" /\ Has(var.d, "options") THEN Get(var.d, "options").d
          ELSE <<>>)

Defines(entry, var, k) == \E i \in DOMAIN Layers : Has(LayerOf(entry, var, Layers[i]), k)

\* The value of k in the layer of highest priority that has k.
Winner(entry, var, k) ==
    LET top == CHOOSE i \in DOMAIN Layers :
                   /\ Has(LayerOf(entry, var, Layers[i]), k)
                   /\ \A j \in DOMAIN Layers :
                         Has(LayerOf(entry, var, Layers[j]), k) => j <= i
    IN  Get(LayerOf(entry, var, Layers[top]), k)

\* The attribution values handed to pythonize_data for the catalogue raw.
RawAttributions(raw) ==
    UNION { { Winner(raw[i][2].d, v[2], "attribution").s :
                v \in { w \in VariantsOf(raw[i][2].d) :
                          Defines(raw[i][2].d, w[2], "attribution") } } :
            i \in DOMAIN raw }

IsTableKey(token) ==
    \E i \in DOMAIN AttributionProviders : token = Placeholder(AttributionProviders[i])

\* s holds a token {attribution.X} that is no key of the table.
HasUnknownToken(s) ==
    \E i \in 1..(Len(s) - 2) :
        s[i] = "{attribution." /\ s[i + 2] = "}" /\ ~IsTableKey(SubSeq(s, i, i + 2))

\* Every {attribution. of s starts a key of the table.
KnownTokensOnly(s) ==
    \A i \in DOMAIN s :
        s[i] = "{attribution." => i + 2 <= Len(s) /\ IsTableKey(SubSeq(s, i, i + 2))

\* Every entry has "options" and the three attribution providers are complete.
WellFormed(raw) ==
    /\ \A i \in DOMAIN AttributionProviders : HasAttribution(raw, AttributionProviders[i])
    /\ \A i \in DOMAIN raw : Has(raw[i][2].d, "options")

ItemSet(d) == { d[i] : i \in DOMAIN d }

(***************************************************************************)
(* C1                                                                      *)
(***************************************************************************)
\* C1: every record of a catalogue process_data returned, at any depth, has
\* the keys "name" and "url".
C1_EveryRecordHasNameAndUrl ==
    result # Null =>
        \A rec \in Records(data.d, result.d) : Has(rec, "name") /\ Has(rec, "url")

(***************************************************************************)
(* C2                                                                      *)
(***************************************************************************)
\* C2: when the attribution value of a record holds a token {attribution.X}
\* that is no key of the table, process_data raises and returns no catalogue
\* (the ValueError of pythonize_data when nothing else is missing), and no
\* record of a returned catalogue has "{attribution." left in its attribution.
C2_UnknownAttributionAborts ==
    /\ (NormalizeActed /\ \E a \in RawAttributions(data.d) : HasUnknownToken(a)) =>
          /\ pc = "failed"
          /\ result = Null
          /\ "leaflet-providers-parsed.json" \notin WrittenFiles
          /\ error \in {"KeyError", "ValueError"}
          /\ WellFormed(data.d) => error = "ValueError"
    /\ result # Null =>
          \A rec \in Records(data.d, result.d) :
              Has(rec, "attribution") =>
                  ~IsSubstr(AttributionPrefix, Get(rec, "attribution").s)

\* An unknown token beside a registered one in the same value made the run fail.
C2_Witness ==
    /\ pc = "failed"
    /\ error = "ValueError"
    /\ \E a \in RawAttributions(data.d) :
          HasUnknownToken(a) /\ IsSubstr(Placeholder("OpenStreetMap"), a)

(***************************************************************************)
(* C3                                                                      *)
(***************************************************************************)
Cites(table, i, j) == IsSubstr(table[j][1], table[i][2])

CitesLater(table, i, j) ==
    \/ Cites(table, i, j)
    \/ \E k \in DOMAIN table : Cites(table, i, k) /\ Cites(table, k, j)
    \/ \E k, l \in DOMAIN table :
          Cites(table, i, k) /\ Cites(table, k, l) /\ Cites(table, l, j)

Acyclic(table) == \A i \in DOMAIN table : ~CitesLater(table, i, i)

\* C3: for an attribution value whose tokens, and those of the table values,
\* are all keys of the table, the table not citing itself in a cycle,
\* pythonize_data does not raise and leaves no key of the table in the value.
C3_KnownPlaceholdersResolve ==
    ( /\ pc = "pythonize_ret"
      /\ Has(arg.d, "attribution")
      /\ KnownTokensOnly(Get(arg.d, "attribution").s)
      /\ \A i \in DOMAIN ATTRIBUTIONS : KnownTokensOnly(ATTRIBUTIONS[i][2])
      /\ Acyclic(ATTRIBUTIONS) ) =>
        /\ ret.err = "none"
        /\ \A i \in DOMAIN ATTRIBUTIONS :
              ~IsSubstr(ATTRIBUTIONS[i][1], Get(ret.val.d, "attribution").s)

(***************************************************************************)
(* C4                                                                      *)
(***************************************************************************)
\* C4: for an entry without variants process_provider returns one record, whose
\* name is the provider's name whatever "name" the entry or its options
\* carry, and which has no key "variants" and no key "options".
C4_PlainProviderRecord ==
    ( /\ pc = "provider_ret"
      /\ ~HasVariants(Get(data.d, arg.s[1]).d)
      /\ ret.err = "none" ) =>
        /\ Has(ret.val.d, "name")
        /\ Get(ret.val.d, "name") = Str(<<arg.s[1]>>)
        /\ ~Has(ret.val.d, "variants")
        /\ ~Has(ret.val.d, "options")
        /\ \A i \in DOMAIN ret.val.d : ret.val.d[i][2].t # "dict"

\* A record was returned for an entry carrying "name" at top level and in options.
C4_Witness ==
    /\ pc = "provider_ret"
    /\ ret.err = "none"
    /\ ~HasVariants(Get(data.d, arg.s[1]).d)
    /\ Has(LayerOf(Get(data.d, arg.s[1]).d, Null, "provider"), "name")
    /\ Has(LayerOf(Get(data.d, arg.s[1]).d, Null, "provider.options"), "name")

(***************************************************************************)
(* C5                                                                      *)
(***************************************************************************)
\* C5: for an entry with variants process_provider returns a mapping whose keys
\* are the variant names, each record named "<provider>.<variant>", for a
\* variant given as a string and for one given as a mapping alike.
C5_VariantRecords ==
    ( /\ pc = "provider_ret"
      /\ HasVariants(Get(data.d, arg.s[1]).d)
      /\ ret.err = "none" ) =>
        LET variants == Get(Get(data.d, arg.s[1]).d, "variants").d
        IN  /\ [i \in DOMAIN ret.val.d |-> ret.val.d[i][1]] =
               [i \in DOMAIN variants |-> variants[i][1]]
            /\ \A i \in DOMAIN variants :
                  /\ ret.val.d[i][2].t = "dict"
                  /\ Has(ret.val.d[i][2].d, "name")
                  /\ Get(ret.val.d[i][2].d, "name") =
                        Str(<<arg.s[1], ".", variants[i][1]>>)

\* A record was returned for a variant given as a mapping with a "name" of its own.
C5_Witness ==
    /\ pc = "provider_ret"
    /\ ret.err = "none"
    /\ HasVariants(Get(data.d, arg.s[1]).d)
    /\ \E v \in VariantsOf(Get(data.d, arg.s[1]).d) :
          /\ v[2].t = "dict"
          /\ Has(LayerOf(Get(data.d, arg.s[1]).d, v[2], "variant.options"), "name")
          /\ Has(Get(ret.val.d, v[1]).d, "name")

(***************************************************************************)
(* C6                                                                      *)
(***************************************************************************)
ExpectedOSMRecord ==
    { <<"name", Str(<<"OpenStreetMap">>)>>, <<"url", Url0>>, <<"max_zoom", Num(19)>>,
      <<"attribution", Str(<<"(c) OSM">>)>> }

\* An entry with a plain attribution and no variants.
PlainEntry(raw, p) ==
    /\ HasAttribution(raw, p)
    /\ ~IsSubstr(AttributionPrefix, Get(Get(Get(raw, p).d, "options").d, "attribution").s)
    /\ ~Has(Get(raw, p).d, "variants")

\* C6: normalising the catalogue that holds the single provider OpenStreetMap
\* of the example succeeds and yields exactly the example's record.
C6_SingleProviderNormalizes ==
    (NormalizeActed /\ data = Dict(Item("OpenStreetMap", OSMExample))) =>
        /\ result # Null
        /\ Keys(result.d) = {"OpenStreetMap"}
        /\ ItemSet(Get(result.d, "OpenStreetMap").d) = ExpectedOSMRecord

\* C6 as amended: for a catalogue holding the example's OpenStreetMap entry,
\* process_data raises KeyError when Esri or OpenMapSurfer or their
\* options.attribution is missing; it succeeds for the catalogue of the three
\* with plain attributions and no variants; and whenever it succeeds the
\* OpenStreetMap record is exactly the example's.
C6_ExampleNeedsAttributionProviders ==
    ( /\ NormalizeActed
      /\ Has(data.d, "OpenStreetMap")
      /\ Get(data.d, "OpenStreetMap") = OSMExample ) =>
        /\ (~HasAttribution(data.d, "Esri") \/ ~HasAttribution(data.d, "OpenMapSurfer")) =>
              pc = "failed" /\ error = "KeyError" /\ result = Null
        /\ ( /\ Keys(data.d) = {"OpenStreetMap", "Esri", "OpenMapSurfer"}
             /\ PlainEntry(data.d, "Esri")
             /\ PlainEntry(data.d, "OpenMapSurfer") ) => result # Null
        /\ result # Null =>
              ItemSet(Get(result.d, "OpenStreetMap").d) = ExpectedOSMRecord

\* The example's entry was normalised beside Esri and OpenMapSurfer.
C6_Witness ==
    /\ pc = "normalized"
    /\ Keys(data.d) = {"OpenStreetMap", "Esri", "OpenMapSurfer"}
    /\ Get(data.d, "OpenStreetMap") = OSMExample
    /\ ItemSet(Get(result.d, "OpenStreetMap").d) = ExpectedOSMRecord

(***************************************************************************)
(* C7                                                                      *)
(***************************************************************************)
\* The url template with every {maxZoom} and {minZoom} renamed in one pass
\* from the left, all else kept.
RECURSIVE ExpectedUrl(_, _)
ExpectedUrl(s, i) ==
    IF i > Len(s) THEN <<>>
    ELSE IF i + 2 <= Len(s) /\ s[i] = "{" /\ s[i + 2] = "}" /\ s[i + 1] = "maxZoom"
         THEN <<"{", "max_zoom", "}">> \o ExpectedUrl(s, i + 3)
    ELSE IF i + 2 <= Len(s) /\ s[i] = "{" /\ s[i + 2] = "}" /\ s[i + 1] = "minZoom"
         THEN <<"{", "min_zoom", "}">> \o ExpectedUrl(s, i + 3)
    ELSE <<s[i]>> \o ExpectedUrl(s, i + 1)

\* C7: pythonize_data rewrites every {maxZoom} of a url to {max_zoom} and every
\* {minZoom} to {min_zoom} and leaves the rest of the url as it was: other
\* placeholders, and maxZoom or minZoom outside braces.
C7_UrlPlaceholdersRenamed ==
    (pc = "pythonize_ret" /\ Has(arg.d, "url")) =>
        /\ ~Has(arg.d, "attribution") => ret.err = "none"
        /\ ret.err = "none" =>
              /\ Has(ret.val.d, "url")
              /\ Get(ret.val.d, "url").s = ExpectedUrl(Get(arg.d, "url").s, 1)

\* A url with {maxZoom} and a bare word was rewritten, the bare word kept.
C7_Witness ==
    /\ pc = "pythonize_ret"
    /\ ret.err = "none"
    /\ Get(arg.d, "url").s = <<"{", "maxZoom", "}", "minZoom", "z">>
    /\ Get(ret.val.d, "url").s = <<"{", "max_zoom", "}", "minZoom", "z">>

(***************************************************************************)
(* C8                                                                      *)
(***************************************************************************)
\* C8: a run that fails, at whatever step, has written none of the three files.
C8_FailureWritesNothing == pc = "failed" => WrittenFiles = {}

\* C8 as amended: a run that fails has written the files whose write precedes
\* the failing step and no other: none when the fetch fails, the raw JSON when
\* normalisation fails, the raw and the parsed JSON when rendering fails; the
\* other files are as the run found them.
C8_FailureKeepsEarlierWrites ==
    pc = "failed" =>
        /\ error = "FetchError" => WrittenFiles = {}
        /\ error \in {"KeyError", "ValueError"} =>
              WrittenFiles = {"leaflet-providers-raw.json"}
        /\ error = "AttributeError" =>
              WrittenFiles = {"leaflet-providers-raw.json", "leaflet-providers-parsed.json"}
        /\ error \in {"FetchError", "KeyError", "ValueError", "AttributeError"}
        /\ \A f \in FileNames \ WrittenFiles :
              files[f].body = <<>> /\ files[f].st \in {"absent", "stale"}

\* Rendering failed after both JSON files were written.
C8_Witness ==
    /\ pc = "failed"
    /\ error = "AttributeError"
    /\ WrittenFiles = {"leaflet-providers-raw.json", "leaflet-providers-parsed.json"}

(***************************************************************************)
(* C9                                                                      *)
(***************************************************************************)
\* The layer a value of the bounded entries was written in.
Origin(value) == IF value.t = "num" THEN Layers[value.n] ELSE value.s[1]

Canonical(k) == IF Has(rename_keys, k) THEN Get(rename_keys, k) ELSE k

\* C9: in every record process_provider returns, a key other than "name" that
\* some layer defines has the value of the layer of highest priority defining
\* it (variant options, variant, provider options, provider), "name" is the
\* qualified name, and the record has no other key.
C9_MergePrecedence ==
    (pc = "provider_ret" /\ ret.err = "none") =>
        LET entry == Get(data.d, arg.s[1]).d
        IN  \A v \in VariantsOf(entry) :
                LET rec == RecordOf(entry, ret.val, v[1])
                IN  /\ \A k \in FieldKeySet \ {"name"} :
                          Defines(entry, v[2], k) =>
                              /\ Has(rec, Canonical(k))
                              /\ Origin(Get(rec, Canonical(k))) =
                                    Origin(Winner(entry, v[2], k))
                    /\ Get(rec, "name") =
                          Str(IF HasVariants(entry) THEN <<arg.s[1], ".", v[1]>>
                              ELSE <<arg.s[1]>>)
                    /\ Keys(rec) =
                          {"name"} \cup { Canonical(k) :
                                            k \in { x \in FieldKeySet : Defines(entry, v[2], x) } }

\* A record was returned for a variant with one key defined in all four layers.
C9_Witness ==
    /\ pc = "provider_ret"
    /\ ret.err = "none"
    /\ \E v \in VariantsOf(Get(data.d, arg.s[1]).d), k \in FieldKeySet \ {"name"} :
          /\ \A i \in DOMAIN Layers :
                Has(LayerOf(Get(data.d, arg.s[1]).d, v[2], Layers[i]), k)
          /\ Origin(Get(Get(ret.val.d, v[1]).d, Canonical(k))) = "variant.options"

(***************************************************************************)
(* C10                                                                     *)
(***************************************************************************)
\* The declarations of the rendered text at one depth, as <<name, class>>.
Declarations(lines, ind) ==
    LET opens == SelectSeq(lines, LAMBDA l : l.kind = "open" /\ l.ind = ind)
    IN  [i \in DOMAIN opens |-> <<opens[i].name, opens[i].cls>>]

RECURSIVE ExpectedNested(_, _)
ExpectedNested(raw, i) ==
    IF i > Len(raw) THEN <<>>
    ELSE (IF HasVariants(raw[i][2].d)
          THEN LET variants == Get(raw[i][2].d, "variants").d
               IN  [j \in DOMAIN variants |-> <<variants[j][1], "TileProvider">>]
          ELSE <<>>)
         \o ExpectedNested(raw, i + 1)

\* C10: generate_file never fails on a catalogue process_data returned, and it
\* declares, in the catalogue's order, a TileProvider for every provider
\* without variants and a Bunch for every provider with variants, the Bunch
\* holding one TileProvider per variant.
C10_RendersEveryCatalog ==
    /\ error # "AttributeError"
    /\ content # <<>> =>
          /\ Declarations(content[1].providers, 4) =
                [i \in DOMAIN data.d |->
                    <<data.d[i][1],
                      IF HasVariants(data.d[i][2].d) THEN "Bunch" ELSE "TileProvider">>]
          /\ Declarations(content[1].providers, 8) = ExpectedNested(data.d, 1)

====
